---- MODULE Spec2Model ----
(***************************************************************************)
(* Model of the Antigravity "Always Proceed" auto-run patcher              *)
(* (src/fixes/auto-run-fix/patch.js).                                      *)
(*                                                                         *)
(* File contents are strings of characters.  Positions are 0-based as in   *)
(* JavaScript; -1 means "not found".  The regular expressions of the       *)
(* source are written out as recognisers over the characters.              *)
(***************************************************************************)
EXTENDS Integers, Sequences, FiniteSets, TLC

\* ------------------------------------------------------------------------
\* Characters and JavaScript string primitives
\* ------------------------------------------------------------------------

\* The class \w of a JavaScript regular expression: [A-Za-z0-9_].
WordChars ==
    {"a","b","c","d","e","f","g","h","i","j","k","l","m",
     "n","o","p","q","r","s","t","u","v","w","x","y","z",
     "A","B","C","D","E","F","G","H","I","J","K","L","M",
     "N","O","P","Q","R","S","T","U","V","W","X","Y","Z",
     "0","1","2","3","4","5","6","7","8","9","_"}

\* The class \s (the members that can occur in the modelled texts).
SpaceChars == {" ", "\t", "\n", "\r"}

Min(a, b) == IF a < b THEN a ELSE b
Max(a, b) == IF a > b THEN a ELSE b

\* s.charAt(i): the character at 0-based index i, "" outside the string.
CharAt(s, i) == IF i >= 0 /\ i < Len(s) THEN SubSeq(s, i + 1, i + 1) ELSE ""

\* s.substring(a, b) for a <= b: indices clamped to [0, s.length].
Substring(s, a, b) == SubSeq(s, Max(0, a) + 1, Min(b, Len(s)))

\* s.startsWith(lit, i)
StartsWith(s, lit, i) ==
    /\ i >= 0
    /\ i + Len(lit) <= Len(s)
    /\ SubSeq(s, i + 1, i + Len(lit)) = lit

\* The least member of a set of indices, -1 for the empty set.
Least(S) == IF S = {} THEN -1 ELSE CHOOSE i \in S : \A j \in S : i <= j

\* s.indexOf(lit, i): least index >= i where lit occurs, -1 if none.
IndexOfFrom(s, lit, i) ==
    Least({j \in Max(0, i)..(Len(s) - Len(lit)) : StartsWith(s, lit, j)})

IndexOf(s, lit) == IndexOfFrom(s, lit, 0)

\* s.includes(lit)
Includes(s, lit) == IndexOf(s, lit) # -1

\* s.split(lit).length - 1 for a non-empty lit: the number of occurrences
\* of lit met scanning left to right, each search resuming after the
\* previous occurrence.
RECURSIVE SplitCountFrom(_, _, _)
SplitCountFrom(s, lit, i) ==
    LET p == IndexOfFrom(s, lit, i)
    IN IF p = -1 THEN 0 ELSE 1 + SplitCountFrom(s, lit, p + Len(lit))

SplitCount(s, lit) == SplitCountFrom(s, lit, 0)

\* s.replace(lit, repl) with a string pattern: the first occurrence only.
\* (repl is built from \w-tokens and fixed punctuation, so it holds no "$"
\* and none of the $-patterns of String.prototype.replace applies.)
Replace(s, lit, repl) ==
    LET p == IndexOf(s, lit)
    IN IF p = -1 THEN s
       ELSE Substring(s, 0, p) \o repl \o Substring(s, p + Len(lit), Len(s))

\* Index after the longest run of \w characters starting at i (greedy \w*).
RECURSIVE WordEnd(_, _)
WordEnd(s, i) ==
    IF CharAt(s, i) \in WordChars THEN WordEnd(s, i + 1) ELSE i

\* Index after the longest run of [\w,] characters starting at i.
RECURSIVE DepsEnd(_, _)
DepsEnd(s, i) ==
    IF CharAt(s, i) \in WordChars \cup {","} THEN DepsEnd(s, i + 1) ELSE i

\* Index after the longest run of \s characters starting at i.
RECURSIVE SpaceEnd(_, _)
SpaceEnd(s, i) ==
    IF CharAt(s, i) \in SpaceChars THEN SpaceEnd(s, i + 1) ELSE i

\* \b immediately before a \w character at i.
WordBoundary(s, i) == CharAt(s, i - 1) \notin WordChars

NoMatch == [found |-> FALSE]

\* The leftmost of a set of matches, NoMatch for the empty set.
Leftmost(ms) ==
    IF ms = {} THEN NoMatch
    ELSE CHOOSE m \in ms : \A n \in ms : m.index <= n.index

\* ------------------------------------------------------------------------
\* The regular expressions of analyzeFile
\* ------------------------------------------------------------------------

\* onChangeRe, policyRe and secureRe are sequences of items:
\*   Lit(str)  the characters of str
\*   Group     (\w+), the next capturing group
\*   Word      \w+
\*   Back(n)   \n, the text of group n
\*   Deps      [\w,]*
Lit(str) == [item |-> "lit",   str |-> str, n |-> 0]
Group    == [item |-> "group", str |-> "",  n |-> 0]
Word     == [item |-> "word",  str |-> "",  n |-> 0]
Back(n)  == [item |-> "back",  str |-> "",  n |-> n]
Deps     == [item |-> "deps",  str |-> "",  n |-> 0]

\* /(\w+)=(\w+)\((\w+)=>\{\w+\?\.setTerminalAutoExecutionPolicy\?\.\(\3\),
\*  \3===(\w+)\.EAGER&&(\w+)\(!0\)\},\[[\w,]*\]\)/
onChangeRe ==
    << Group, Lit("="), Group, Lit("("), Group, Lit("=>{"), Word,
       Lit("?.setTerminalAutoExecutionPolicy?.("), Back(3), Lit("),"),
       Back(3), Lit("==="), Group, Lit(".EAGER&&"), Group, Lit("(!0)},["),
       Deps, Lit("])") >>

\* (\w+)=\w+\?\.terminalAutoExecutionPolicy\?\?${enumAlias}\.OFF
\* (enumAlias is a run of \w characters: it stands for itself in the
\* expression.)
policyRe(enumAlias) ==
    << Group, Lit("="), Word, Lit("?.terminalAutoExecutionPolicy??"),
       Lit(enumAlias), Lit(".OFF") >>

\* /(\w+)=\w+\?\.secureModeEnabled\?\?!1/
secureRe ==
    << Group, Lit("="), Word, Lit("?.secureModeEnabled??!1") >>

\* The items of re matched one after the other from index i.  In these
\* expressions every \w+ and [\w,]* is followed by a character outside its
\* class, so each takes the whole run of characters of its class.
RECURSIVE MatchItems(_, _, _, _)
MatchItems(s, i, re, groups) ==
    IF re = << >> THEN [found |-> TRUE, end |-> i, groups |-> groups]
    ELSE LET it  == Head(re)
             lit == IF it.item = "back" THEN groups[it.n] ELSE it.str
             e   == IF it.item = "deps" THEN DepsEnd(s, i) ELSE WordEnd(s, i)
         IN CASE it.item \in {"lit", "back"} ->
                    IF StartsWith(s, lit, i)
                    THEN MatchItems(s, i + Len(lit), Tail(re), groups)
                    ELSE NoMatch
              [] it.item = "group" ->
                    IF e > i
                    THEN MatchItems(s, e, Tail(re),
                                    Append(groups, Substring(s, i, e)))
                    ELSE NoMatch
              [] it.item = "word" ->
                    IF e > i THEN MatchItems(s, e, Tail(re), groups)
                    ELSE NoMatch
              [] it.item = "deps" ->
                    MatchItems(s, e, Tail(re), groups)

\* The result of a match that starts at index i: the array
\* [fullMatch, group 1, group 2, ...] and its index.
MatchResult(s, i, m) ==
    IF m.found
    THEN [found |-> TRUE, index |-> i,
          match |-> << Substring(s, i, m.end) >> \o m.groups]
    ELSE NoMatch

\* The leftmost match of re in s that starts at index i or later.
MatchFrom(s, re, i) ==
    Leftmost({m \in {MatchResult(s, j, MatchItems(s, j, re, << >>)) :
                        j \in i..(Len(s) - 1)} : m.found})

\* s.match(re) for an expression without the g flag.
Match(s, re) == MatchFrom(s, re, 0)

onChangeMatch(text) == Match(text, onChangeRe)

policyMatch(window, enumAlias) == Match(window, policyRe(enumAlias))

secureMatch(window) == Match(window, secureRe)

\* effectRe anchored at i:  \b(\w{2,3})\(\(\)=>\{[^}]{3,80}\},\[
\* The alias is a whole run of 2 or 3 word characters; the body runs to the
\* first "}" and must be 3 to 80 characters long.
EffectAliasMin == 2
EffectAliasMax == 3
EffectBodyMin == 3
EffectBodyMax == 80

EffectAt(s, i) ==
    LET e     == WordEnd(s, i)
        body  == e + Len("(()=>{")
        close == IndexOfFrom(s, "}", body)
    IN IF /\ WordBoundary(s, i)
          /\ e - i >= EffectAliasMin /\ e - i <= EffectAliasMax
          /\ StartsWith(s, "(()=>{", e)
          /\ close # -1
          /\ close - body >= EffectBodyMin /\ close - body <= EffectBodyMax
          /\ StartsWith(s, "},[", close)
       THEN [found |-> TRUE, index |-> i, end |-> close + 3,
             alias |-> Substring(s, i, e)]
       ELSE NoMatch

\* effectRe.exec(s) with lastIndex = i
EffectFrom(s, i) ==
    Leftmost({m \in {EffectAt(s, j) : j \in i..(Len(s) - 1)} : m.found})

\* cleanupRe anchored at i:  \b(\w{2,3})\(\(\)=>\{[^}]*return\s*\(\)=>
\* [^}]* is greedy: the match ends at the last "return\s*()=>" that the
\* body holds before its first "}".
CleanupAt(s, i) ==
    LET e      == WordEnd(s, i)
        body   == e + Len("(()=>{")
        close  == IndexOfFrom(s, "}", body)
        runEnd == IF close = -1 THEN Len(s) ELSE close
        ks     == {k \in body..(runEnd - 1) :
                      /\ StartsWith(s, "return", k)
                      /\ StartsWith(s, "()=>", SpaceEnd(s, k + 6))}
        last   == CHOOSE k \in ks : \A j \in ks : j <= k
    IN IF /\ WordBoundary(s, i)
          /\ e - i >= EffectAliasMin /\ e - i <= EffectAliasMax
          /\ StartsWith(s, "(()=>{", e)
          /\ ks # {}
       THEN [found |-> TRUE, index |-> i,
             end |-> SpaceEnd(s, last + 6) + 4,
             alias |-> Substring(s, i, e)]
       ELSE NoMatch

\* cleanupRe.exec(s) with lastIndex = i
CleanupFrom(s, i) ==
    Leftmost({m \in {CleanupAt(s, j) : j \in i..(Len(s) - 1)} : m.found})

\* effectCandidates[alias] = (effectCandidates[alias] || 0) + weight.
\* The object is a sequence of <<alias, count>> in insertion order.
RECURSIVE Tally(_, _, _)
Tally(cands, alias, weight) ==
    IF cands = << >> THEN << <<alias, weight>> >>
    ELSE IF Head(cands)[1] = alias
         THEN << <<alias, Head(cands)[2] + weight>> >> \o Tail(cands)
         ELSE << Head(cands) >> \o Tally(Tail(cands), alias, weight)

PlainWeight == 1
CleanupWeight == 5

\* while ((m = effectRe.exec(nearbyCode)) !== null) { ... }
RECURSIVE EffectLoop(_, _, _, _)
EffectLoop(nearbyCode, lastIndex, callbackAlias, cands) ==
    LET m == EffectFrom(nearbyCode, lastIndex)
    IN IF ~m.found THEN cands
       ELSE EffectLoop(nearbyCode, m.end, callbackAlias,
               IF /\ m.alias # callbackAlias
                  /\ m.alias # "var" /\ m.alias # "new"
               THEN Tally(cands, m.alias, PlainWeight)
               ELSE cands)

\* while ((m = cleanupRe.exec(content)) !== null) { ... }
RECURSIVE CleanupLoop(_, _, _, _)
CleanupLoop(text, lastIndex, callbackAlias, cands) ==
    LET m == CleanupFrom(text, lastIndex)
    IN IF ~m.found THEN cands
       ELSE CleanupLoop(text, m.end, callbackAlias,
               IF m.alias # callbackAlias
               THEN Tally(cands, m.alias, CleanupWeight)
               ELSE cands)

\* A property key that is an array index: the decimal digits of an integer
\* with no leading zero.
Digits == "0123456789"

IsArrayIndex(key) ==
    /\ key # ""
    /\ \A i \in 0..(Len(key) - 1) : IndexOf(Digits, CharAt(key, i)) # -1
    /\ (Len(key) = 1 \/ CharAt(key, 0) # "0")

RECURSIVE IndexValue(_)
IndexValue(key) ==
    IF key = "" THEN 0
    ELSE 10 * IndexValue(Substring(key, 0, Len(key) - 1))
            + IndexOf(Digits, CharAt(key, Len(key) - 1))

RECURSIVE Ascending(_, _)
Ascending(cands, is) ==
    IF is = {} THEN << >>
    ELSE LET m == CHOOSE i \in is : \A j \in is :
                     IndexValue(cands[i][1]) <= IndexValue(cands[j][1])
         IN << cands[m] >> \o Ascending(cands, is \ {m})

\* Object.entries(effectCandidates): the keys that are array indices in
\* ascending numeric order, then the other keys in insertion order.
ObjectEntries(cands) ==
    Ascending(cands, {i \in 1..Len(cands) : IsArrayIndex(cands[i][1])})
        \o SelectSeq(cands, LAMBDA c : ~IsArrayIndex(c[1]))

\* for (const [alias, count] of Object.entries(effectCandidates))
\*     if (count > maxCount) { maxCount = count; useEffectAlias = alias; }
NoAlias == ""

RECURSIVE PickAlias(_, _, _)
PickAlias(cands, useEffectAlias, maxCount) ==
    IF cands = << >> THEN useEffectAlias
    ELSE IF Head(cands)[2] > maxCount
         THEN PickAlias(Tail(cands), Head(cands)[1], Head(cands)[2])
         ELSE PickAlias(Tail(cands), useEffectAlias, maxCount)

PolicyWindow == 2000
NearbyWindow == 5000

effectCandidates(text, matchIndex, callbackAlias) ==
    LET nearbyCode == Substring(text, Max(0, matchIndex - NearbyWindow),
                                matchIndex + NearbyWindow)
    IN CleanupLoop(text, 0, callbackAlias,
           EffectLoop(nearbyCode, 0, callbackAlias, << >>))

\* The patch fragment and its marker (step 5 of analyzeFile).
patchCode(useEffectAlias, policyVar, enumAlias, secureVar, confirmFn) ==
    "_aep=" \o useEffectAlias \o "(()=>{" \o policyVar \o "===" \o enumAlias
        \o ".EAGER&&!" \o secureVar \o "&&" \o confirmFn \o "(!0)},[]),"

patchMarker(useEffectAlias, policyVar, enumAlias) ==
    "_aep=" \o useEffectAlias \o "(()=>{" \o policyVar \o "===" \o enumAlias
        \o ".EAGER"

Failed(stage) == [ok |-> FALSE, failed |-> stage]

\* The end of analyzeFile: null without a useEffect alias, else the patch.
buildPatch(fullMatch, enumAlias, confirmFn, policyVar, secureVar, alias) ==
    IF alias = NoAlias THEN Failed("useEffect")
    ELSE [ok          |-> TRUE,
          target      |-> fullMatch,
          replacement |-> patchCode(alias, policyVar, enumAlias, secureVar,
                                    confirmFn) \o fullMatch,
          patchMarker |-> patchMarker(alias, policyVar, enumAlias)]

\* Mutant: the secure-mode variable looked for before the policy variable.
analyzeFromSecureFirst(text, oc, matchIndex) ==
    LET window == Substring(text, Max(0, matchIndex - PolicyWindow),
                            matchIndex)
        pm     == policyMatch(window, oc.match[5])
        sm     == secureMatch(window)
    IN IF ~sm.found THEN Failed("secure")
       ELSE IF ~pm.found THEN Failed("policy")
       ELSE buildPatch(oc.match[1], oc.match[5], oc.match[6], pm.match[2],
                       sm.match[2],
                       PickAlias(ObjectEntries(effectCandidates(text,
                                     matchIndex, oc.match[3])),
                                 NoAlias, 0))

\* Steps 2 to 5 of analyzeFile, for the match of onChangeRe and the index
\* of its text:
\*   const [fullMatch, assignVar, callbackAlias, argName, enumAlias,
\*          confirmFn] = onChangeMatch
analyzeFrom(text, oc, matchIndex) ==
    LET fullMatch     == oc.match[1]
        callbackAlias == oc.match[3]
        enumAlias     == oc.match[5]
        confirmFn     == oc.match[6]
        window == Substring(text, Max(0, matchIndex - PolicyWindow),
                            matchIndex)
        pm     == policyMatch(window, enumAlias)
        sm     == secureMatch(window)
    IN IF ~pm.found THEN Failed("policy")
       ELSE IF ~sm.found THEN Failed("secure")
       ELSE buildPatch(fullMatch, enumAlias, confirmFn, pm.match[2],
                       sm.match[2],
                       PickAlias(ObjectEntries(effectCandidates(text,
                                     matchIndex, callbackAlias)),
                                 NoAlias, 0))

\* analyzeFile(text, label): the analysis record, or null together with
\* the stage whose message is logged.
analyzeFile(text) ==
    LET oc == onChangeMatch(text)
    IN IF ~oc.found THEN Failed("onChange")
       ELSE analyzeFrom(text, oc, IndexOf(text, oc.match[1]))

\* Mutant: the already-patched test left out.
existingPatchNever(text) == FALSE

\* The already-patched test of patchFile:
\*   content.includes('_aep=') &&
\*   content.match(/_aep=\w+\(\(\)=>\{[^}]+EAGER[^}]+\},\[\]\)/)
ExistingPatchAt(s, i) ==
    LET b     == i + Len("_aep=")
        e     == WordEnd(s, b)
        body  == e + Len("(()=>{")
        close == IndexOfFrom(s, "}", body)
    IN /\ StartsWith(s, "_aep=", i)
       /\ e > b
       /\ StartsWith(s, "(()=>{", e)
       /\ close # -1
       /\ StartsWith(s, "},[])", close)
       /\ \E k \in (body + 1)..(close - 6) : StartsWith(s, "EAGER", k)

existingPatch(text) ==
    /\ Includes(text, "_aep=")
    /\ \E i \in 0..(Len(text) - 1) : ExistingPatchAt(text, i)

\* The patched test of checkFile:
\*   content.includes('_aep=') && /_aep=\w+\(\(\)=>\{[^}]+EAGER/.test(content)
CheckPatchedAt(s, i) ==
    LET b      == i + Len("_aep=")
        e      == WordEnd(s, b)
        body   == e + Len("(()=>{")
        close  == IndexOfFrom(s, "}", body)
        runEnd == IF close = -1 THEN Len(s) ELSE close
    IN /\ StartsWith(s, "_aep=", i)
       /\ e > b
       /\ StartsWith(s, "(()=>{", e)
       /\ \E k \in (body + 1)..(runEnd - 5) : StartsWith(s, "EAGER", k)

checkPatched(text) ==
    /\ Includes(text, "_aep=")
    /\ \E i \in 0..(Len(text) - 1) : CheckPatchedAt(text, i)

\* ------------------------------------------------------------------------
\* The file system and the texts it can hold
\* ------------------------------------------------------------------------

\* fs.readFileSync(p, 'utf8') decodes the bytes of the file: a byte sequence
\* that is not valid UTF-8 becomes U+FFFD.  In a file's data "^" stands for
\* such a sequence and "~" for U+FFFD (on disk: its encoding EF BF BD).
RECURSIVE Utf8Decode(_)
Utf8Decode(bytes) ==
    LET p == IndexOf(bytes, "^")
    IN IF p = -1 THEN bytes
       ELSE Substring(bytes, 0, p) \o "~"
                \o Utf8Decode(Substring(bytes, p + 1, Len(bytes)))

\* fs.writeFileSync(p, str, 'utf8') encodes the string; a decoded string
\* holds no lone surrogate, so every character is written as its encoding.
Utf8Encode(str) == str

\* files of main(): the path of each target stands for its label.
files == << "workbench", "jetskiAgent" >>

Targets == {files[i] : i \in 1..Len(files)}

\* filePath + '.bak'
BakPath(filePath) == filePath \o ".bak"

Paths == Targets \cup {BakPath(f) : f \in Targets}

NoFile == [exists |-> FALSE, data |-> ""]
File(data) == [exists |-> TRUE, data |-> data]

\* Fragments of minified bundle text.
HandlerText ==
    "y=Mt(_=>{h?.setTerminalAutoExecutionPolicy?.(_),_===Dhe.EAGER&&b(!0)},[])"
PolicyText == "u=h?.terminalAutoExecutionPolicy??Dhe.OFF"
SecureText == "d=h?.secureModeEnabled??!1"
CleanupText == "mn(()=>{return ()=>{x()}},[q])"

\* One handler with all its context: patchable.
TextOk ==
    PolicyText \o "," \o SecureText \o "," \o CleanupText \o "," \o HandlerText
\* The same behind bytes that are not valid UTF-8: patchable.
TextBadUtf8 == "/*^*/" \o TextOk
\* A patched text to which the handler text was added a second time.
TextPatchedDup ==
    PolicyText \o "," \o SecureText \o "," \o CleanupText \o ","
        \o "_aep=mn(()=>{u===Dhe.EAGER&&!d&&b(!0)},[])," \o HandlerText
        \o ";" \o HandlerText
\* The handler text twice, with all its context.
TextDup == TextOk \o ";" \o HandlerText
\* The handler text twice, without the policy variable.
TextDupNoPolicy ==
    SecureText \o "," \o CleanupText \o "," \o HandlerText \o ";" \o HandlerText
\* No handler at all.
TextOther == "var x=1;"

Texts ==
    {TextOk, TextBadUtf8, TextDup, TextDupNoPolicy, TextPatchedDup, TextOther}

\* Texts that lack one or more of the shapes analyzeFile looks for.
TextNoSecure == PolicyText \o "," \o CleanupText \o "," \o HandlerText
TextNoPolicyNoSecure == CleanupText \o "," \o HandlerText
TextNoEffect == PolicyText \o "," \o SecureText \o "," \o HandlerText
TextNoSecureNoEffect == PolicyText \o "," \o HandlerText
TextNoHandler == PolicyText \o "," \o SecureText \o "," \o CleanupText

StageTexts ==
    {TextNoSecure, TextNoPolicyNoSecure, TextNoEffect, TextNoSecureNoEffect,
     TextNoHandler}

\* The handler shape a second time, with other identifiers and a
\* dependency list.
HandlerText2 ==
    "z=Mt(a=>{h?.setTerminalAutoExecutionPolicy?.(a),a===Dhe.EAGER&&c(!0)},[k,j])"
\* Two handlers whose texts differ, with all their context.
TextTwoShapes == TextOk \o ";" \o HandlerText2

ShapeTexts == {TextTwoShapes}

\* Texts with several candidates for the hook alias: two aliases with one
\* plain call each; the same with an alias of digits second; four plain
\* calls of one alias and a cleanup call of another; five plain calls and
\* a cleanup call; plain calls of the wrapping alias of the handler only.
TextTie == "ab(()=>{x()},[q]),cd(()=>{x()},[q])," \o TextNoEffect
TextTieIndex == "ab(()=>{x()},[q]),12(()=>{x()},[q])," \o TextNoEffect
TextCleanupWins ==
    "ab(()=>{x()},[q]),ab(()=>{x()},[q]),ab(()=>{x()},[q]),ab(()=>{x()},[q]),"
        \o TextOk
TextCleanupTie == "ab(()=>{x()},[q])," \o TextCleanupWins
TextCallbackOnly == "Mt(()=>{x()},[q]),Mt(()=>{x()},[q])," \o TextNoEffect

AliasTexts ==
    {TextTie, TextTieIndex, TextCleanupWins, TextCleanupTie, TextCallbackOnly}

\* A patchable text that also holds a hook call named _aep whose body
\* ends with EAGER and whose dependency list is not empty.
TextLoosePatch == TextOk \o ";_aep=mn(()=>{u===Dhe.EAGER},[q])"

MarkerTexts == {TextLoosePatch}

\* The texts of the specification that runs the program on one text.
TextPool ==
    Texts \cup StageTexts \cup ShapeTexts \cup AliasTexts \cup MarkerTexts

\* Mutant: the uniqueness test left out.
targetIsUniqueAlways(text, target) == TRUE

\* The uniqueness test: content.split(analysis.target).length - 1 === 1
targetIsUnique(text, target) == SplitCount(text, target) = 1

\* Mutant: the target replaced by the fragment alone.
applyPatchFragmentOnly(text, a) ==
    Replace(text, a.target,
            Substring(a.replacement, 0, Len(a.replacement) - Len(a.target)))

\* content.replace(analysis.target, analysis.replacement)
applyPatch(text, a) == Replace(text, a.target, a.replacement)

\* What patchFile and checkFile compute from the text of a file.
textFacts(text) ==
    [existingPatch |-> existingPatch(text),
     checkPatched  |-> checkPatched(text),
     analysis      |-> analyzeFile(text)]

\* The texts the files of the model hold when no call has gone wrong, and
\* what is computed from them; Facts looks the result up here and computes
\* it for any other text.
patchedText(text, a) == IF a.ok THEN applyPatch(text, a) ELSE text

TextsRead == {Utf8Decode(t) : t \in TextPool}
TextsKnown == TextsRead \cup {patchedText(t, analyzeFile(t)) : t \in TextsRead}
FactsTable == [t \in TextsKnown |-> textFacts(t)]

Facts(text) ==
    IF text \in TextsKnown THEN FactsTable[text] ELSE textFacts(text)

\* ------------------------------------------------------------------------
\* State
\* ------------------------------------------------------------------------

VARIABLES
    fs,        \* the file system: path -> file
    pc,        \* "idle": no process; "loop": main between two calls;
               \* "backup", "write": inside patchFile
    action,    \* the mode of the running process
    idx,       \* index in files of the next (or current) file
    ok,        \* FALSE once a patchFile call of files.every returned false
    content,   \* patchFile: the text read from the file
    analysis,  \* the result of analyzeFile in the running call or, between
               \* two calls, in the call before
    report,    \* path -> the status line logged for it by the last process
    exitCode,  \* exit code of the last process, -1 while it runs
    before,    \* history: the file and its backup when the current call began
    writes,    \* history: number of file writes of the current call
    watched,   \* history: the path whose calls are recorded
    hist       \* history: the last calls of patchFile and revertFile on
               \* the watched path since the environment last changed it

vars == << fs, pc, action, idx, ok, content, analysis, report, exitCode,
           before, writes, watched, hist >>

NoAnalysis == [ok |-> FALSE, failed |-> "none"]

\* Length of the call history kept for each path.
HistLen == 2

Snapshot(filesys, f) == [live |-> filesys[f], bak |-> filesys[BakPath(f)]]

Call(op, res, bef, aft, w) ==
    [op |-> op, res |-> res, before |-> bef, after |-> aft, writes |-> w]

Record(h, f, call) ==
    LET all == Append(h, call)
    IN IF f # watched THEN h
       ELSE IF Len(all) > HistLen THEN Tail(all) ELSE all

NoReport == [f \in Targets |-> "none"]

TypeOK ==
    /\ DOMAIN fs = Paths
    /\ pc \in {"idle", "loop", "backup", "write"}
    /\ action \in {"none", "apply", "check", "revert"}
    /\ idx \in 1..(Len(files) + 1)
    /\ ok \in BOOLEAN
    /\ exitCode \in {-1, 0, 1}
    /\ writes \in 0..2

Init ==
    /\ \E t1 \in Texts : \E f2 \in {NoFile} \cup {File(t) : t \in Texts} :
          fs = [p \in Paths |->
                   IF p = files[1] THEN File(t1)
                   ELSE IF p = files[2] THEN f2
                   ELSE NoFile]
    /\ pc = "idle"
    /\ action = "none"
    /\ idx = 1
    /\ ok = TRUE
    /\ content = ""
    /\ analysis = NoAnalysis
    /\ report = NoReport
    /\ exitCode = -1
    /\ before = Snapshot([p \in Paths |-> NoFile], files[1])
    /\ writes = 0
    /\ watched \in Targets
    /\ hist = << >>

NoSnapshot == Snapshot([p \in Paths |-> NoFile], files[1])

\* ------------------------------------------------------------------------
\* File system calls
\* ------------------------------------------------------------------------

\* fs.existsSync(p)
existsSync(filesys, p) == filesys[p].exists

\* Mutant: the copy made by reading and writing text.
copyFileSyncAsText(filesys, src, dst) ==
    [filesys EXCEPT ![dst] = File(Utf8Encode(Utf8Decode(filesys[src].data)))]

\* fs.copyFileSync(src, dst): dst becomes a byte copy of src (the success
\* case; the source exists).
copyFileSync(filesys, src, dst) == [filesys EXCEPT ![dst] = filesys[src]]

\* Mutant: the text appended to the file.
writeFileSyncAppends(filesys, p, str) ==
    [filesys EXCEPT ![p] = File(filesys[p].data \o Utf8Encode(str))]

\* fs.writeFileSync(p, str, 'utf8'): the whole file is replaced.
writeFileSync(filesys, p, str) ==
    [filesys EXCEPT ![p] = File(Utf8Encode(str))]

\* Mutant: the exception caught; a failed backup is passed over and the
\* call goes on to write the file, any other failed call returns false.
ThrowSwallowed(f, op, bef, w) ==
    IF pc = "backup"
    THEN /\ pc' = "write"
         /\ UNCHANGED << action, idx, ok, content, analysis, report,
                         exitCode, before, writes, hist, watched >>
    ELSE /\ pc' = "loop"
         /\ idx' = idx + 1
         /\ ok' = (op # "patch")
         /\ report' = [report EXCEPT ![f] = "threw"]
         /\ hist' = Record(hist, f, Call(op, "threw", bef, Snapshot(fs', f), w))
         /\ content' = ""
         /\ analysis' = NoAnalysis
         /\ before' = NoSnapshot
         /\ writes' = 0
         /\ UNCHANGED << action, exitCode, watched >>

\* An uncaught exception ends the process with exit code 1.
Throw(f, op, bef, w) ==
    /\ pc' = "idle"
    /\ exitCode' = 1
    /\ report' = [report EXCEPT ![f] = "threw"]
    /\ hist' = Record(hist, f, Call(op, "threw", bef, Snapshot(fs', f), w))
    /\ content' = ""
    /\ analysis' = NoAnalysis
    /\ before' = NoSnapshot
    /\ writes' = 0
    /\ UNCHANGED << action, idx, ok, watched >>

\* ------------------------------------------------------------------------
\* main
\* ------------------------------------------------------------------------

\* isAntigravityDir(basePath): the workbench bundle exists.  It decides both
\* the --path check and every candidate of findAntigravityPath.
isAntigravityDir(filesys) == existsSync(filesys, files[1])

\* main up to the switch: without an installation process.exit(1).
Main(mode) ==
    /\ pc = "idle"
    /\ IF isAntigravityDir(fs)
       THEN /\ pc' = "loop"
            /\ action' = mode
            /\ exitCode' = -1
       ELSE /\ pc' = "idle"
            /\ action' = "none"
            /\ exitCode' = 1
    /\ idx' = 1
    /\ ok' = TRUE
    /\ report' = NoReport
    /\ UNCHANGED << fs, content, analysis, before, writes, watched, hist >>

\* The end of main: the loop over files is over, or files.every stopped at
\* the first patchFile that returned false.  main never sets an exit code.
everyStops(allOk) == ~allOk

MainEnd ==
    /\ pc = "loop"
    /\ idx > Len(files) \/ (action = "apply" /\ everyStops(ok))
    /\ pc' = "idle"
    /\ exitCode' = 0
    /\ analysis' = NoAnalysis
    /\ UNCHANGED << fs, action, idx, ok, content, report, before, writes,
                    watched, hist >>

\* ------------------------------------------------------------------------
\* patchFile
\* ------------------------------------------------------------------------

\* Mutant: the test for a missing file left out.
patchGateNoExistsCheck(found, text, facts) ==
    IF facts.existingPatch THEN "already-patched"
    ELSE IF ~facts.analysis.ok THEN "unrecognized"
    ELSE IF ~targetIsUnique(text, facts.analysis.target) THEN "ambiguous"
    ELSE "ready"

\* The decisions of patchFile before it touches the file system, for the
\* text read and what is computed from it.
patchGate(found, text, facts) ==
    IF ~found THEN "not-found"
    ELSE IF facts.existingPatch THEN "already-patched"
    ELSE IF ~facts.analysis.ok THEN "unrecognized"
    ELSE IF ~targetIsUnique(text, facts.analysis.target) THEN "ambiguous"
    ELSE "ready"

\* The value patchFile returns for an early return.
gateReturns(status) == status = "already-patched"

\* Mutant: "return false" missing after the ambiguity message.
proceedsWhenAmbiguous(status) == status \in {"ready", "ambiguous"}

\* patchFile goes on to backup and write only if no early return is taken.
proceeds(status) == status = "ready"

\* Mutants: the backup made on every run; the backup never made.
needsBackupAlways(filesys, f) == TRUE

needsBackupNever(filesys, f) == FALSE

\* if (!fs.existsSync(filePath + '.bak'))
needsBackup(filesys, f) == ~existsSync(filesys, BakPath(f))

\* patchFile from its entry to the uniqueness test.
PatchFileBegin ==
    /\ pc = "loop" /\ action = "apply" /\ idx <= Len(files) /\ ok
    /\ LET f     == files[idx]
           found == existsSync(fs, f)
           text  == IF found THEN Utf8Decode(fs[f].data) ELSE ""
       IN \E facts \in {Facts(text)} :
          \E status \in {patchGate(found, text, facts)} :
          /\ report' = [report EXCEPT
                           ![f] = IF status = "ready" THEN "none" ELSE status]
          /\ IF proceeds(status)
             THEN /\ pc' = "backup"
                  /\ content' = text
                  /\ analysis' = facts.analysis
                  /\ before' = Snapshot(fs, f)
                  /\ writes' = 0
                  /\ UNCHANGED << action, idx, ok, exitCode, hist >>
             ELSE /\ pc' = "loop"
                  /\ ok' = gateReturns(status)
                  /\ idx' = idx + 1
                  /\ analysis' = IF status \in {"not-found", "already-patched"}
                                 THEN NoAnalysis ELSE facts.analysis
                  /\ hist' = Record(hist, f,
                                Call("patch", status, Snapshot(fs, f),
                                     Snapshot(fs, f), 0))
                  /\ UNCHANGED << action, content, exitCode, before, writes >>
    /\ UNCHANGED << fs, watched >>

\* The backup step: the copy is made only if no backup exists; a failing
\* copy throws.
PatchFileBackup ==
    /\ pc = "backup"
    /\ UNCHANGED watched
    /\ LET f == files[idx]
       IN IF needsBackup(fs, f)
          THEN \/ /\ fs[f].exists
                  /\ fs' = copyFileSync(fs, f, BakPath(f))
                  /\ pc' = "write"
                  /\ writes' = writes + 1
                  /\ UNCHANGED << action, idx, ok, content, analysis, report,
                                  exitCode, before, hist >>
               \/ /\ UNCHANGED fs
                  /\ Throw(f, "patch", before, writes)
          ELSE /\ pc' = "write"
               /\ UNCHANGED << fs, action, idx, ok, content, analysis,
                               report, exitCode, before, writes, hist >>

\* The apply step: replace the target, write the file, log the size
\* difference, return true; a failing write throws.
PatchFileWrite ==
    /\ pc = "write"
    /\ UNCHANGED watched
    /\ LET f       == files[idx]
           patched == applyPatch(content, analysis)
       IN \/ /\ fs' = writeFileSync(fs, f, patched)
             /\ pc' = "loop"
             /\ idx' = idx + 1
             /\ report' = [report EXCEPT ![f] = "patched"]
             /\ hist' = Record(hist, f,
                           Call("patch", "patched", before,
                                Snapshot(fs', f), writes + 1))
             /\ content' = ""
             /\ analysis' = NoAnalysis
             /\ before' = NoSnapshot
             /\ writes' = 0
             /\ UNCHANGED << action, ok, exitCode >>
          \/ /\ UNCHANGED fs
             /\ Throw(f, "patch", before, writes)

\* ------------------------------------------------------------------------
\* revertFile and checkFile
\* ------------------------------------------------------------------------

\* Mutant: the backup moved over the file instead of copied.
restoreBackupMoves(filesys, f) ==
    [filesys EXCEPT ![f] = filesys[BakPath(f)], ![BakPath(f)] = NoFile]

\* fs.copyFileSync(bak, filePath) of revertFile
restoreBackup(filesys, f) == copyFileSync(filesys, BakPath(f), f)

\* revertFile: without a backup a no-op; otherwise the backup is copied
\* over the file; a failing copy throws.
RevertFile ==
    /\ pc = "loop" /\ action = "revert" /\ idx <= Len(files)
    /\ UNCHANGED watched
    /\ LET f   == files[idx]
           bak == BakPath(f)
       IN IF ~existsSync(fs, bak)
          THEN /\ report' = [report EXCEPT ![f] = "skipped"]
               /\ idx' = idx + 1
               /\ hist' = Record(hist, f,
                             Call("revert", "skipped", Snapshot(fs, f),
                                  Snapshot(fs, f), 0))
               /\ UNCHANGED << fs, pc, action, ok, content, analysis,
                               exitCode, before, writes >>
          ELSE \/ /\ fs[bak].exists
                  /\ fs' = restoreBackup(fs, f)
                  /\ report' = [report EXCEPT ![f] = "restored"]
                  /\ idx' = idx + 1
                  /\ hist' = Record(hist, f,
                                Call("revert", "restored", Snapshot(fs, f),
                                     Snapshot(fs', f), 1))
                  /\ UNCHANGED << pc, action, ok, content, analysis,
                                  exitCode, before, writes >>
               \/ /\ UNCHANGED fs
                  /\ Throw(f, "revert", Snapshot(fs, f), 0)

\* The classification checkFile logs.
checkStatus(found, facts) ==
    IF ~found THEN "not-found"
    ELSE IF facts.checkPatched THEN "PATCHED"
    ELSE IF facts.analysis.ok THEN "patchable"
    ELSE "incompatible"

\* Mutant: checkFile makes the backup that is missing.
checkFileEffectBackup(filesys, f) ==
    IF existsSync(filesys, f) /\ ~existsSync(filesys, BakPath(f))
    THEN copyFileSync(filesys, f, BakPath(f))
    ELSE filesys

\* The file system after checkFile: its calls are existsSync and
\* readFileSync, none of which writes.
checkFileEffect(filesys, f) == filesys

\* checkFile: reads only.
CheckFile ==
    /\ pc = "loop" /\ action = "check" /\ idx <= Len(files)
    /\ LET f     == files[idx]
           found == existsSync(fs, f)
           text  == IF found THEN Utf8Decode(fs[f].data) ELSE ""
       IN \E facts \in {Facts(text)} :
          \E status \in {checkStatus(found, facts)} :
          /\ report' = [report EXCEPT ![f] = status]
          /\ idx' = idx + 1
          /\ analysis' = IF status \in {"not-found", "PATCHED"}
                         THEN NoAnalysis ELSE facts.analysis
          /\ fs' = checkFileEffect(fs, f)
          /\ UNCHANGED << pc, action, ok, content, exitCode, before, writes,
                          hist >>
    /\ UNCHANGED watched

\* ------------------------------------------------------------------------
\* The environment: between two runs the application is updated,
\* reinstalled or removed, which replaces or deletes a bundle file.
\* ------------------------------------------------------------------------

ExternalModify(f, file) ==
    /\ pc = "idle"
    /\ file # fs[f]
    /\ fs' = [fs EXCEPT ![f] = file]
    /\ hist' = IF f = watched THEN << >> ELSE hist
    /\ UNCHANGED << pc, action, idx, ok, content, analysis, report, exitCode,
                    before, writes, watched >>

Next ==
    \/ \E mode \in {"apply", "check", "revert"} : Main(mode)
    \/ PatchFileBegin
    \/ PatchFileBackup
    \/ PatchFileWrite
    \/ RevertFile
    \/ CheckFile
    \/ MainEnd
    \/ \E f \in Targets : \E file \in {NoFile} \cup {File(t) : t \in Texts} :
          ExternalModify(f, file)

Spec == Init /\ [][Next]_vars

\* The program run any number of times on one text of TextPool, the second
\* file missing or patchable, with no change by the environment.
TextInit ==
    /\ \E t1 \in TextPool : \E f2 \in {NoFile, File(TextOk)} :
          fs = [p \in Paths |->
                   IF p = files[1] THEN File(t1)
                   ELSE IF p = files[2] THEN f2
                   ELSE NoFile]
    /\ pc = "idle"
    /\ action = "none"
    /\ idx = 1
    /\ ok = TRUE
    /\ content = ""
    /\ analysis = NoAnalysis
    /\ report = NoReport
    /\ exitCode = -1
    /\ before = NoSnapshot
    /\ writes = 0
    /\ watched \in Targets
    /\ hist = << >>

TextNext ==
    \/ \E mode \in {"apply", "check", "revert"} : Main(mode)
    \/ PatchFileBegin
    \/ PatchFileBackup
    \/ PatchFileWrite
    \/ RevertFile
    \/ CheckFile
    \/ MainEnd

TextSpec == TextInit /\ [][TextNext]_vars

\* ------------------------------------------------------------------------
\* Properties
\* ------------------------------------------------------------------------

\* Number of places where the handler shape matches (onChangeRe applied
\* repeatedly, each search resuming after the previous match).
RECURSIVE ShapeCountFrom(_, _)
ShapeCountFrom(text, i) ==
    LET m == MatchFrom(text, onChangeRe, i)
    IN IF ~m.found THEN 0
       ELSE 1 + ShapeCountFrom(text, m.index + Len(m.match[1]))

ShapeCountTable == [t \in TextsKnown |-> ShapeCountFrom(t, 0)]

ShapeCount(text) ==
    IF text \in DOMAIN ShapeCountTable THEN ShapeCountTable[text]
    ELSE ShapeCountFrom(text, 0)

\* The text matched by the handler shape occurs at least twice verbatim.
dupTarget(text) ==
    /\ onChangeMatch(text).found
    /\ SplitCount(text, onChangeMatch(text).match[1]) >= 2

DupTargetTable == [t \in TextsKnown |-> dupTarget(t)]

DupTarget(text) ==
    IF text \in DOMAIN DupTargetTable THEN DupTargetTable[text]
    ELSE dupTarget(text)

\* The last call and the call before it on the watched path.
LastCall == hist[Len(hist)]
PrevCall == hist[Len(hist) - 1]

\* A step that is a call of patchFile, revertFile or checkFile on f.
CallOn(f) ==
    /\ pc = "loop"
    /\ idx <= Len(files)
    /\ files[idx] = f
    /\ action = "apply" => ok

\* C1: a file with exactly one handler shape and no backup is, after
\* patchFile followed by revertFile, byte for byte what it was.
RoundTrip ==
    ( /\ Len(hist) >= 2
      /\ PrevCall.op = "patch"
      /\ LastCall.op = "revert"
      /\ LastCall.res # "threw"
      /\ PrevCall.before.live.exists
      /\ ~PrevCall.before.bak.exists
      /\ ShapeCount(Utf8Decode(PrevCall.before.live.data)) = 1 )
    => LastCall.after.live = PrevCall.before.live

RoundTripWitness ==
    /\ Len(hist) >= 2
    /\ PrevCall.op = "patch" /\ PrevCall.res = "patched"
    /\ ~PrevCall.before.bak.exists
    /\ ShapeCount(Utf8Decode(PrevCall.before.live.data)) = 1
    /\ PrevCall.after.live # PrevCall.before.live
    /\ LastCall.op = "revert" /\ LastCall.res = "restored"
    /\ fs[watched] = PrevCall.before.live
    /\ Includes(fs[watched].data, "^")

\* C2: a second patchFile on what a first patchFile left reports
\* already-patched, writes nothing and leaves the file and its backup as
\* they were after the first.
Idempotence ==
    ( /\ Len(hist) >= 2
      /\ PrevCall.op = "patch"
      /\ LastCall.op = "patch"
      /\ PrevCall.res # "threw" )
    => /\ LastCall.after = PrevCall.after
       /\ LastCall.writes = 0
       /\ PrevCall.res \in {"patched", "already-patched"}
             => LastCall.res = "already-patched"

IdempotenceWitness ==
    /\ Len(hist) >= 2
    /\ PrevCall.op = "patch" /\ PrevCall.res = "patched"
    /\ LastCall.op = "patch" /\ LastCall.res = "already-patched"
    /\ Snapshot(fs, watched) = PrevCall.after

\* C3: an existing backup is never changed or removed, whatever is called
\* and however the live file is modified in between.
BackupWriteOnce ==
    [][\A f \in Targets :
          fs[BakPath(f)].exists => fs'[BakPath(f)] = fs[BakPath(f)]]_vars

BackupWriteOnceWitness ==
    /\ Len(hist) >= 1
    /\ LastCall.op = "patch" /\ LastCall.res = "patched"
    /\ LastCall.before.bak.exists
    /\ LastCall.before.bak # LastCall.before.live
    /\ fs[BakPath(watched)] = LastCall.before.bak
    /\ fs[watched] # LastCall.before.live

\* C4: patchFile overwrites the live file only in a state where its backup
\* exists.
WriteAfterBackup ==
    [][\A f \in Targets :
          (pc # "idle" /\ action = "apply" /\ fs'[f] # fs[f])
              => fs[BakPath(f)].exists]_vars

WriteAfterBackupWitness ==
    /\ Len(hist) >= 1
    /\ LastCall.op = "patch" /\ LastCall.res = "patched"
    /\ ~LastCall.before.bak.exists
    /\ LastCall.writes = 2
    /\ fs[BakPath(watched)] = LastCall.before.live
    /\ fs[watched] # LastCall.before.live

\* C5, as stated: patchFile on a text whose matched handler text occurs at
\* least twice leaves the file unmodified and reports ambiguous.
UniquenessGateAsStated ==
    ( /\ Len(hist) >= 1
      /\ LastCall.op = "patch"
      /\ LastCall.before.live.exists
      /\ DupTarget(Utf8Decode(LastCall.before.live.data)) )
    => /\ LastCall.after = LastCall.before
       /\ LastCall.res = "ambiguous"

\* C5, amended: patchFile on such a text leaves the file and its backup
\* unmodified; it reports already-patched if the text holds the patch,
\* else unrecognized if a stage of the extraction fails, else ambiguous.
UniquenessGate ==
    ( /\ Len(hist) >= 1
      /\ LastCall.op = "patch"
      /\ LastCall.before.live.exists
      /\ DupTarget(Utf8Decode(LastCall.before.live.data)) )
    => LET text == Utf8Decode(LastCall.before.live.data)
       IN /\ LastCall.after = LastCall.before
          /\ LastCall.writes = 0
          /\ LastCall.res =
                IF Facts(text).existingPatch THEN "already-patched"
                ELSE IF ~Facts(text).analysis.ok THEN "unrecognized"
                ELSE "ambiguous"

UniquenessGateWitness ==
    /\ Len(hist) >= 1
    /\ LastCall.op = "patch"
    /\ LastCall.before.live.exists
    /\ DupTarget(Utf8Decode(LastCall.before.live.data))
    /\ LastCall.res = "ambiguous"
    /\ Snapshot(fs, watched) = LastCall.before

\* C6: once patchFile has reported not-found, already-patched,
\* unrecognized or ambiguous for a file, the run changes neither the file
\* nor its backup.
NonPatched == {"not-found", "already-patched", "unrecognized", "ambiguous"}

NonPatchedUntouched ==
    [][\A f \in Targets :
          (pc # "idle" /\ action = "apply" /\ report'[f] \in NonPatched)
              => Snapshot(fs', f) = Snapshot(fs, f)]_vars

NonPatchedUntouchedWitness ==
    /\ pc = "idle" /\ action = "apply" /\ exitCode = 0
    /\ report[files[1]] = "already-patched"
    /\ report[files[2]] = "ambiguous"
    /\ ~fs[BakPath(files[2])].exists

\* C7: an apply run that ends normally has run patchFile on every file.
EveryFileProcessed ==
    (pc = "idle" /\ action = "apply" /\ exitCode = 0)
        => \A f \in Targets : report[f] # "none"

\* C8: an apply run exits with zero exactly when every patchFile returned
\* patched or already-patched.
ExitCodeContract ==
    (pc = "idle" /\ action = "apply" /\ exitCode # -1)
        => ( exitCode = 0 <=>
               \A f \in Targets :
                   report[f] \in {"patched", "already-patched"} )

\* C9, as stated: each of patchFile, checkFile and revertFile on a missing
\* file reports not-found, does not throw and creates no file.
MissingFileAsStated ==
    [][\A f \in Targets :
          (CallOn(f) /\ ~fs[f].exists)
              => /\ report'[f] = "not-found"
                 /\ fs' = fs
                 /\ exitCode' = -1]_vars

\* C9, amended: patchFile and checkFile on a missing file report
\* not-found, do not throw and create no file; revertFile on a missing file
\* reports skipped and creates no file if there is no backup, and if there
\* is one it recreates the file from the backup and reports restored, or
\* throws and creates nothing when the copy fails.
MissingFile ==
    [][\A f \in Targets :
          (CallOn(f) /\ ~fs[f].exists)
              => IF action \in {"apply", "check"}
                 THEN /\ report'[f] = "not-found"
                      /\ fs' = fs
                      /\ exitCode' = -1
                 ELSE IF ~fs[BakPath(f)].exists
                 THEN /\ report'[f] = "skipped"
                      /\ fs' = fs
                      /\ exitCode' = -1
                 ELSE \/ /\ report'[f] = "restored"
                         /\ fs' = [fs EXCEPT ![f] = fs[BakPath(f)]]
                         /\ exitCode' = -1
                      \/ /\ report'[f] = "threw"
                         /\ fs' = fs
                         /\ exitCode' = 1]_vars

MissingFileWitness ==
    /\ Len(hist) >= 1
    /\ LastCall.op = "patch"
    /\ LastCall.res = "not-found"
    /\ ~fs[watched].exists
    /\ fs[BakPath(watched)].exists
    /\ report[watched] = "not-found"

\* C10: revertFile with a backup makes the live file a copy of the backup,
\* keeps the backup and reports restored (or throws and changes nothing
\* when the copy fails); without a backup it changes no file, reports
\* skipped and the run goes on.
RevertRestores ==
    [][\A f \in Targets :
          (CallOn(f) /\ action = "revert")
              => IF fs[BakPath(f)].exists
                 THEN \/ /\ report'[f] = "restored"
                         /\ fs' = [fs EXCEPT ![f] = fs[BakPath(f)]]
                         /\ pc' = "loop" /\ exitCode' = -1
                      \/ /\ report'[f] = "threw"
                         /\ fs' = fs
                         /\ exitCode' = 1
                 ELSE /\ report'[f] = "skipped"
                      /\ fs' = fs
                      /\ pc' = "loop" /\ exitCode' = -1]_vars

RevertRestoresWitness ==
    /\ Len(hist) >= 1
    /\ LastCall.op = "revert" /\ LastCall.res = "restored"
    /\ LastCall.before.live.exists
    /\ LastCall.before.live # LastCall.before.bak
    /\ fs[watched] = LastCall.before.bak
    /\ fs[BakPath(watched)] = LastCall.before.bak

\* C11: checkFile changes neither the live file nor the backup and
\* creates no file, whatever the file and its backup are.
CheckReadOnly ==
    [][\A f \in Targets : (CallOn(f) /\ action = "check") => fs' = fs]_vars

CheckReadOnlyWitness ==
    /\ pc = "loop" /\ action = "check" /\ idx > Len(files)
    /\ report[files[1]] = "PATCHED"
    /\ fs[BakPath(files[1])].exists
    /\ report[files[2]] = "not-found"
    /\ ~fs[files[2]].exists /\ ~fs[BakPath(files[2])].exists

\* The text analyzeFile was last called on: the text of the file of the
\* running call or, between two calls, of the call before.
AnalyzedFile == IF pc = "loop" THEN files[idx - 1] ELSE files[idx]
AnalyzedText == Utf8Decode(fs[AnalyzedFile].data)

\* The first of the four shapes that a text lacks, "none" if it has all:
\* the handler, the policy variable and the secure-mode variable in the
\* 2000 characters before the handler, a candidate for the hook alias.
firstFailure(text) ==
    LET oc     == onChangeMatch(text)
        at     == IndexOf(text, oc.match[1])
        window == Substring(text, Max(0, at - PolicyWindow), at)
    IN IF ~oc.found THEN "onChange"
       ELSE IF ~policyMatch(window, oc.match[5]).found THEN "policy"
       ELSE IF ~secureMatch(window).found THEN "secure"
       ELSE IF effectCandidates(text, at, oc.match[3]) = << >>
            THEN "useEffect"
       ELSE "none"

FirstFailureTable == [t \in TextsKnown |-> firstFailure(t)]

FirstFailure(text) ==
    IF text \in TextsKnown THEN FirstFailureTable[text]
    ELSE firstFailure(text)

\* C12: analyzeFile returns a result, with all its fields, only for a text
\* that has all four shapes; for any other text it returns nothing but the
\* failure of the first shape, in the order handler, policy variable,
\* secure-mode variable, hook alias, that the text lacks.
FailsClosed ==
    (pc # "idle" /\ analysis # NoAnalysis)
        => IF FirstFailure(AnalyzedText) = "none"
           THEN /\ DOMAIN analysis
                      = {"ok", "target", "replacement", "patchMarker"}
                /\ analysis.ok
                /\ analysis.target # ""
                /\ analysis.replacement # ""
                /\ analysis.patchMarker # ""
           ELSE /\ DOMAIN analysis = {"ok", "failed"}
                /\ ~analysis.ok
                /\ analysis.failed = FirstFailure(AnalyzedText)

FailsClosedWitness ==
    /\ pc = "loop" /\ action = "apply" /\ idx > 1
    /\ report[AnalyzedFile] = "unrecognized"
    /\ analysis = Failed("policy")
    /\ ~Includes(AnalyzedText, "secureModeEnabled")
    /\ Includes(AnalyzedText, "mn(()=>{return")

\* C13: patchFile on a text in which the handler shape matches at two or
\* more places reports unrecognized and leaves the file and its backup as
\* they were; stated for the places whose matched texts differ (the text
\* matched first occurs once and the text does not hold the patch) and
\* for the calls in which no file system call fails.
ShapeMatchesOnce ==
    ( /\ Len(hist) >= 1
      /\ LastCall.op = "patch" /\ LastCall.res # "threw"
      /\ LastCall.before.live.exists
      /\ ShapeCount(Utf8Decode(LastCall.before.live.data)) >= 2
      /\ ~DupTarget(Utf8Decode(LastCall.before.live.data))
      /\ ~Facts(Utf8Decode(LastCall.before.live.data)).existingPatch )
    => /\ LastCall.res = "unrecognized"
       /\ LastCall.after = LastCall.before

\* A step of the call on f in which the file system call of that step
\* fails: the backup that was to be made is not there, the text that was
\* to be written is not in the file, or the file that was to be restored
\* still differs from its backup.
IOFailure(f) ==
    /\ pc # "idle" /\ idx <= Len(files) /\ files[idx] = f
    /\ \/ /\ pc = "backup"
          /\ needsBackup(fs, f)
          /\ ~fs'[BakPath(f)].exists
       \/ /\ pc = "write"
          /\ fs'[f] = fs[f]
          /\ fs[f].data # Utf8Encode(applyPatch(content, analysis))
       \/ /\ pc = "loop" /\ action = "revert"
          /\ fs[BakPath(f)].exists
          /\ fs[f] # fs[BakPath(f)]
          /\ fs'[f] = fs[f]

\* C14: a failing file system call of patchFile or revertFile ends the
\* process with exit code 1 and no result for the file; no file is written
\* in that step or after it, so a failed backup leaves the live file
\* unwritten.
IOFailureFatal ==
    [][\A f \in Targets :
          IOFailure(f) => /\ pc' = "idle"
                          /\ exitCode' = 1
                          /\ report'[f] = "threw"
                          /\ fs' = fs]_vars

IOFailureFatalWitness ==
    /\ pc = "idle" /\ action = "apply" /\ exitCode = 1
    /\ report[watched] = "threw"
    /\ Len(hist) >= 1
    /\ LastCall.op = "patch" /\ LastCall.res = "threw"
    /\ LastCall.writes = 0
    /\ ~LastCall.before.bak.exists
    /\ ~fs[BakPath(watched)].exists
    /\ fs[watched] = LastCall.before.live
    /\ Facts(Utf8Decode(fs[watched].data)).analysis.ok

\* The aliases of the successive matches of effectRe and of cleanupRe.
RECURSIVE EffectAliases(_, _)
EffectAliases(s, i) ==
    LET m == EffectFrom(s, i)
    IN IF ~m.found THEN << >> ELSE << m.alias >> \o EffectAliases(s, m.end)

RECURSIVE CleanupAliases(_, _)
CleanupAliases(s, i) ==
    LET m == CleanupFrom(s, i)
    IN IF ~m.found THEN << >> ELSE << m.alias >> \o CleanupAliases(s, m.end)

Occurrences(as, alias) == Cardinality({i \in 1..Len(as) : as[i] = alias})

\* The alias the scoring rule selects for a text with a handler: scores of
\* 1 per plain occurrence in the 5000 characters before and after the
\* index of the handler and 5 per cleanup occurrence in the text, the
\* wrapping alias left out, the highest score, the first entered on a tie.
scoredAlias(text) ==
    LET oc      == onChangeMatch(text)
        at      == IndexOf(text, oc.match[1])
        plain   == EffectAliases(
                       Substring(text, Max(0, at - 5000), at + 5000), 0)
        cleanup == CleanupAliases(text, 0)
        entered == SelectSeq(plain \o cleanup, LAMBDA a : a # oc.match[3])
        cands   == {entered[i] : i \in 1..Len(entered)}
        score   == [a \in cands |->
                       Occurrences(plain, a) + 5 * Occurrences(cleanup, a)]
        best    == {a \in cands : \A b \in cands : score[b] <= score[a]}
    IN IF cands = {} THEN NoAlias
       ELSE entered[Least({i \in 1..Len(entered) : entered[i] \in best})]

ScoredAliasTable == [t \in TextsKnown |-> scoredAlias(t)]

ScoredAlias(text) ==
    IF text \in TextsKnown THEN ScoredAliasTable[text] ELSE scoredAlias(text)

\* C15: for a text with the handler, the policy variable and the
\* secure-mode variable, analyzeFile fails if the scoring rule has no
\* candidate and else builds the patch with the alias the rule selects.
HookSelection ==
    ( /\ pc # "idle" /\ analysis # NoAnalysis
      /\ FirstFailure(AnalyzedText) \in {"useEffect", "none"} )
    => IF ScoredAlias(AnalyzedText) = NoAlias
       THEN analysis = Failed("useEffect")
       ELSE /\ analysis.ok
            /\ StartsWith(analysis.patchMarker,
                          "_aep=" \o ScoredAlias(AnalyzedText) \o "(()=>{", 0)

\* C16: when patchFile reports patched, the text it read is P, M, S with
\* M the text of the handler, occurring once, and the file then holds
\* P, the fragment, M, S: the fragment once, right before M, and P, M and
\* S as they were read.
PatchInsertsFragment ==
    ( /\ Len(hist) >= 1
      /\ LastCall.op = "patch" /\ LastCall.res = "patched" )
    => LET text == Utf8Decode(LastCall.before.live.data)
           a    == Facts(text).analysis
           M    == a.target
           frag == Substring(a.replacement, 0,
                             Len(a.replacement) - Len(M))
           at   == IndexOf(text, M)
           P    == Substring(text, 0, at)
           S    == Substring(text, at + Len(M), Len(text))
           live == LastCall.after.live.data
       IN /\ a.ok
          /\ SplitCount(text, M) = 1
          /\ text = P \o M \o S
          /\ StartsWith(frag, "_aep=", 0)
          /\ live = Utf8Encode(P \o frag \o M \o S)
          /\ SplitCount(live, frag) = 1
          /\ SplitCount(live, M) = 1

PatchInsertsFragmentWitness ==
    /\ Len(hist) >= 1
    /\ LastCall.op = "patch" /\ LastCall.res = "patched"
    /\ LET text == Utf8Decode(LastCall.before.live.data)
           M    == Facts(text).analysis.target
           at   == IndexOf(text, M)
       IN /\ at > 0
          /\ at + Len(M) < Len(text)
          /\ Len(fs[watched].data) > Len(text)
          /\ fs[watched] = LastCall.after.live

\* The contents of a file that is not patched and that analyzeFile
\* accepts, and the one patched form of such a file.
PatchableFiles ==
    {T \in TextPool : LET facts == Facts(Utf8Decode(T))
                      IN ~facts.existingPatch /\ facts.analysis.ok}

PatchedForm ==
    [T \in PatchableFiles |->
        Utf8Encode(applyPatch(Utf8Decode(T), Facts(Utf8Decode(T)).analysis))]

\* The backup is absent or T, the live file is T or its patched form.
Lifecycle(snap, T) ==
    /\ (~snap.bak.exists \/ snap.bak = File(T))
    /\ snap.live \in {File(T), File(PatchedForm[T])}

\* C17: if before a call of patchFile or revertFile the file was T, not
\* patched and patchable, without a backup, or what earlier calls have
\* made of it (the backup absent or T, the live file T or the patched
\* form of T), then it is so after the call and through all that follows
\* until the next such call, calls of checkFile included; and a call of
\* patchFile that reports patched, the first or one after a revert,
\* leaves that one patched form in the file.
LifecycleInvariant ==
    \A T \in PatchableFiles :
        (Len(hist) >= 1 /\ Lifecycle(LastCall.before, T))
            => /\ Lifecycle(LastCall.after, T)
               /\ Lifecycle(Snapshot(fs, watched), T)
               /\ (LastCall.op = "patch" /\ LastCall.res = "patched")
                      => LastCall.after.live = File(PatchedForm[T])

\* A second patch after a revert: the file holds the patched form again
\* and the backup is still the file as it was at first.
LifecycleInvariantWitness ==
    /\ Len(hist) >= 2
    /\ fs[BakPath(watched)].exists
    /\ fs[BakPath(watched)].data \in PatchableFiles
    /\ PrevCall.op = "revert" /\ PrevCall.res = "restored"
    /\ PrevCall.before.live.data = PatchedForm[fs[BakPath(watched)].data]
    /\ PrevCall.after.live = fs[BakPath(watched)]
    /\ LastCall.op = "patch" /\ LastCall.res = "patched"
    /\ fs[watched].data = PatchedForm[fs[BakPath(watched)].data]
    /\ fs[watched] # fs[BakPath(watched)]

\* C18: for every content, checkFile reports PATCHED on it exactly when
\* patchFile on it reports already-patched and changes no file (stated
\* for the calls of patchFile in which no file system call fails).
CheckAgreesWithPatch ==
    ( /\ Len(hist) >= 1
      /\ LastCall.op = "patch" /\ LastCall.res # "threw"
      /\ LastCall.before.live.exists )
    => ( checkStatus(TRUE, Facts(Utf8Decode(LastCall.before.live.data)))
             = "PATCHED"
         <=> /\ LastCall.res = "already-patched"
             /\ LastCall.after = LastCall.before
             /\ LastCall.writes = 0 )

\* C19: when checkFile classifies a content as patchable, patchFile on
\* that content, with no failing file system call, reports patched and
\* has written the patched text to the file.
PatchableIsPatched ==
    ( /\ Len(hist) >= 1
      /\ LastCall.op = "patch" /\ LastCall.res # "threw"
      /\ LastCall.before.live.exists
      /\ checkStatus(TRUE, Facts(Utf8Decode(LastCall.before.live.data)))
             = "patchable" )
    => /\ LastCall.res = "patched"
       /\ LastCall.writes >= 1
       /\ LastCall.after.live # LastCall.before.live
       /\ Facts(Utf8Decode(LastCall.after.live.data)).existingPatch

====
